---- MODULE Spec2Model ----
(***************************************************************************)
(* A model of ContentStore (src/src/store.rs): the wallet / trunk /        *)
(* durable-store orchestrator of the bdk wallet.                           *)
(*                                                                         *)
(* Every handler of ContentStore is modelled statement by statement: a     *)
(* call is begun by a Begin action, then its statements are executed one   *)
(* at a time in the order the source lists them (the ...Steps sequences),  *)
(* and the call ends in Ok, in Err (a `?` on a storage or wallet result)   *)
(* or in a panic (an `expect`/`unwrap`, or a commit that fails: the call   *)
(* sites discard commit's value, so a failing commit can only abort the    *)
(* call by unwinding).  One call runs at a time; between two calls the     *)
(* model is idle.                                                          *)
(*                                                                         *)
(* Wallet (crate::wallet) and DB (crate::db) are not part of the files     *)
(* modelled here; their operations follow the interface contract of the    *)
(* natural-language specification (sections 4.3, 4.5 and 6).               *)
(*                                                                         *)
(* SpecChain: the chain-sync layer calls block_connected, unwind_tip and   *)
(* add_header with any block, in any order (the handlers accept any), and  *)
(* the process may be killed between two statements.  SpecFund: callers    *)
(* fund and withdraw while blocks are connected on the processed tip.      *)
(* The variables last, pre and prior record the calls made; no handler     *)
(* reads them.                                                             *)
(***************************************************************************)
EXTENDS Integers, Sequences, FiniteSets, TLC

\* ------------------------------------------------------------------ bounds
\* number of blocks the chain-sync layer can deliver
NBlocks == 3
\* number of keys an account can hand out before the model stops allocating
MaxKeys == 2
\* largest amount a caller asks fund / withdraw for
MaxAmount == 2
\* number of caller threads beside the chain-sync thread
NCallers == 2

\* ------------------------------------------------------- the block universe
\* Block hashes are 1..NBlocks.  NoBlock is the hash the first block builds
\* on, and the marker of a store that has processed nothing.
NoBlock == 0
Blocks == 1..NBlocks

\* header.prev_blockhash: 1 <- 2, 1 <- 3 (a fork), 3 <- 4, 4 <- 5, ...
Prev(b) == IF b % 3 = 0 THEN b - 2 ELSE b - 1

\* A coin is named after the block that creates it.
Coins == {b \in Blocks : b % 2 = 1}

\* the outputs of block b that pay the wallet
Outs(b) == IF b % 2 = 1 THEN {b} ELSE {}

\* the wallet coins the transactions of block b spend
Ins(b) ==
    IF b % 3 = 0 THEN {b - 2} \cap Coins
    ELSE IF b % 4 = 0 THEN {b - 1} \cap Coins
    ELSE {}

\* the value of a coin, in satoshis
Value(c) == c

RECURSIVE Sum(_)
Sum(S) == IF S = {} THEN 0 ELSE LET c == CHOOSE x \in S : TRUE IN Value(c) + Sum(S \ {c})

\* ------------------------------------------------------- the funding script
\* the ids a funding key is tweaked with (sha256 hashes)
Ids == {1, 2}

\* the terms (u16), at the boundaries of the script-number encoding
Terms == {0, 1, 16, 17, 128, 32768, 65535}

\* the x coordinate of the key with index i of the funding account, tweaked
\* by id
TweakX(i, id) == 16 * i + id

\* public keys: the x coordinate (one byte of it), the parity of y, and
\* whether the key serializes compressed
PubKeys == {[x |-> TweakX(i, id), odd |-> id % 2, compressed |-> c] :
                i \in 1..MaxKeys, id \in Ids, c \in BOOLEAN}

NoKey == [x |-> 0, odd |-> 0, compressed |-> TRUE]

\* PublicKey::to_bytes(): 33 bytes compressed, 65 bytes uncompressed
PubKeyBytes(pk) ==
    IF pk.compressed
    THEN <<2 + pk.odd>> \o [i \in 1..32 |-> (pk.x + i) % 256]
    ELSE <<4>> \o [i \in 1..32 |-> (pk.x + i) % 256]
               \o [i \in 1..32 |-> (pk.x + 2 * i + pk.odd) % 256]

OP_PUSHDATA1 == 76
OP_PUSHNUM_1 == 81
OP_DROP == 117
OP_CHECKSIG == 172
OP_CSV == 178

\* the bytes of a script number n > 0: little endian, with a zero byte added
\* when the top bit of the last byte is set
RECURSIVE ScriptIntBytes(_)
ScriptIntBytes(n) ==
    IF n > 255 THEN <<n % 256>> \o ScriptIntBytes(n \div 256)
    ELSE IF n >= 128 THEN <<n, 0>>
    ELSE <<n>>

\* Builder::push_slice(data)
PushSlice(data) ==
    IF Len(data) < OP_PUSHDATA1 THEN <<Len(data)>> \o data
    ELSE <<OP_PUSHDATA1, Len(data)>> \o data

\* Builder::push_int(n), n >= 0: OP_PUSHNUM_n for 1..16, OP_0 for 0, the
\* script number pushed as data otherwise
PushInt(n) ==
    IF n \in 1..16 THEN <<n - 1 + OP_PUSHNUM_1>>
    ELSE IF n = 0 THEN <<0>>
    ELSE PushSlice(ScriptIntBytes(n))

\* the script with the key pushed before the term
FundingScriptKeyFirst(tweaked, term) ==
    PushSlice(PubKeyBytes(tweaked)) \o <<OP_CHECKSIG>> \o PushInt(term) \o <<OP_CSV, OP_DROP>>

\* ContentStore::funding_script(tweaked, term)
FundingScript(tweaked, term) ==
    PushInt(term) \o <<OP_CSV>> \o <<OP_DROP>> \o PushSlice(PubKeyBytes(tweaked))
                  \o <<OP_CHECKSIG>>

\* sha256 of a script, as a value that names what was hashed
Sha256(script) == <<"sha256", script>>

\* Address::p2wsh(script, network): the version 0 witness program of the
\* script's hash
AddressP2wsh(script, network) ==
    [network |-> network, version |-> 0, program |-> Sha256(script)]

\* Address::script_pubkey()
ScriptPubkey(address) == [version |-> address.version, program |-> address.program]

\* ContentStore::funding_address(tweaked, term)
FundingAddress(tweaked, term) == AddressP2wsh(FundingScript(tweaked, term), "bitcoin")

\* the closure fund hands to the wallet:
\* |pk, term| Self::funding_script(pk, term.unwrap()); Some(t) is <<t>>
Scripter(pk, term) == FundingScript(pk, term[1])

NoDerived == [pk |-> NoKey, term |-> 0, script |-> <<>>,
              address |-> [network |-> "none", version |-> 0, program |-> <<>>]]

\* ------------------------------------------------------------------ state
VARIABLES
    wallet,     \* ContentStore.wallet: coins, per-block changes, key indices
    db,         \* the durable store behind ContentStore.db
    poisoned,   \* the db mutex was held by a call that panicked
    txout,      \* ContentStore.txout is Some(sender)
    stopped,    \* ContentStore.stopped
    sent,       \* the transactions pushed to the broadcast channel
    call,       \* the call being executed, and its position
    last,       \* the last call that ended, and how
    pre,        \* wallet, db and sent as they were when that call began
    prior,      \* the same for the call before it, while the two are linked
    trunk,      \* ContentStore.trunk: the headers of the canonical chain
    lock,       \* the RwLock of SharedContentStore: its writer and its readers
    cur,        \* the thread that is executing `call`
    parked,     \* the calls of the other threads
    derived,    \* what a counterparty last derived from a key and a term
    jni,        \* the call of the JNI layer being executed, and its result
    configs     \* the configs on disk behind crate::api, per network

vars == <<wallet, db, poisoned, txout, stopped, sent, call, last, pre, prior,
          trunk, lock, cur, parked, derived, jni, configs>>

\* what the handlers of ContentStore never write
shared == <<trunk, lock, cur, parked, derived, jni, configs>>

\* the chain-sync thread is thread 0, the caller threads are 1..NCallers
ChainSync == 0
Threads == 0..NCallers

NoThread == -1

Accounts == {"0/0", "0/1", "1/0"}

NoScript == [version |-> 0, program |-> <<>>]

\* a transaction: the coins it spends, the key index it allocated, the amount,
\* and for a funding transaction the counterparty key, the id, the term and
\* the script_pubkey of the funding output
NoTx == [kind |-> "none", ins |-> {}, key |-> 0, amount |-> 0, funder |-> NoKey, id |-> 0,
         term |-> 0, script_pubkey |-> NoScript]

\* A call is linked to the call before it when it delivers the same block
\* again ("again") or unwinds the block that call connected ("undo"); res is
\* how that call ended.
NoLink == [kind |-> "none", res |-> "none"]

\* no value returned
NoRet == <<>>

\* send is what became of the push to the broadcast channel: "none" (not
\* reached), "absent" (no channel bound), "failed" or "sent"
Idle == [op |-> "idle", pc |-> 0, arg |-> 0, id |-> 0, term |-> 0,
         tx |-> [open |-> FALSE], changed |-> FALSE,
         txn |-> NoTx, crashed |-> FALSE, link |-> NoLink, send |-> "none", ret |-> NoRet,
         guard |-> FALSE]

NoLast == [op |-> "none", arg |-> 0, res |-> "none", fail |-> "none", txn |-> NoTx,
           link |-> NoLink, changed |-> FALSE, send |-> "none", ret |-> NoRet]

NoPrior == [wallet |-> "none", db |-> "none", ret |-> NoRet]

\* ---------------------------------------------------------------- Wallet
\* Wallet::coins(): the wallet's UTXO set
WalletCoins(w) == w.coins

\* Wallet::balance(): total = sum of all UTXO values
WalletBalance(w) == Sum(w.coins)

\* the wallet holds UTXO-set changes attributed to block b
Absorbed(w, b) == w.added[b] \cup w.removed[b] # {}

\* Wallet::process(block): scan the block against the wallet's UTXO set;
\* the result's `changed` is the bool process returns
WalletProcess(w, b) ==
    LET add == Outs(b) \ w.coins
        rem == Ins(b) \cap w.coins
    IN  IF Absorbed(w, b) \/ (add \cup rem = {})
        THEN [wallet |-> w, changed |-> FALSE]
        ELSE [wallet |-> [w EXCEPT !.coins = (w.coins \cup add) \ rem,
                                   !.added[b] = add,
                                   !.removed[b] = rem],
              changed |-> TRUE]

\* Wallet::unwind_tip(hash): roll back the changes attributed to the block
WalletUnwindTip(w, h) ==
    [w EXCEPT !.coins = (w.coins \ w.added[h]) \cup w.removed[h],
              !.added[h] = {},
              !.removed[h] = {}]

\* the coin selections that cover cost (amount plus fee) out of the wallet
Selections(w, cost) == {ins \in SUBSET w.coins : ins # {} /\ Sum(ins) >= cost}

\* the key with index i of the funding account, tweaked by id
Tweak(i, id) == [x |-> TweakX(i, id), odd |-> id % 2, compressed |-> TRUE]

\* Wallet::fund(id, term, .., scripter): spend the selected coins into an
\* output locked by the P2WSH of scripter(tweaked key, Some(term)), register
\* the funding key in account 1/0 and return the tweaked key beside the
\* transaction
WalletFund(w, id, term, cost, ins) ==
    LET pk == Tweak(w.keys["1/0"] + 1, id)
    IN  [wallet |-> [w EXCEPT !.coins = w.coins \ ins, !.keys["1/0"] = w.keys["1/0"] + 1],
         txn |-> [kind |-> "fund", ins |-> ins, key |-> w.keys["1/0"] + 1, amount |-> cost,
                  funder |-> pk, id |-> id, term |-> term,
                  script_pubkey |-> ScriptPubkey(AddressP2wsh(Scripter(pk, <<term>>),
                                                              "testnet"))]]

\* Wallet::withdraw(..): spend the selected coins (all of them when amount
\* is None, cost 0 here) and allocate a change key in account 0/1
WalletWithdraw(w, cost, ins) ==
    [wallet |-> [w EXCEPT !.coins = w.coins \ ins, !.keys["0/1"] = w.keys["0/1"] + 1],
     txn |-> [NoTx EXCEPT !.kind = "withdraw", !.ins = ins, !.key = w.keys["0/1"] + 1,
                          !.amount = cost]]

\* ------------------------------------------------------------- DB and Txn
\* db.transaction(): the writes of a transaction are staged on a copy
DbTransaction(d) == [open |-> TRUE, processed |-> d.processed, markers |-> d.markers,
                     coins |-> d.coins, accounts |-> d.accounts, txouts |-> d.txouts]

TxStoreCoins(tx, coins) == [tx EXCEPT !.coins = coins]

\* the marker record added beside the one the store holds
TxStoreProcessedAppend(tx, h) == [tx EXCEPT !.processed = h, !.markers = tx.markers + 1]

\* tx.store_processed(hash): the marker record is written in place of the
\* one the store holds
TxStoreProcessed(tx, h) == [tx EXCEPT !.processed = h, !.markers = 1]

\* tx.store_account(account): the account's record, with its key index
TxStoreAccount(tx, a, w) == [tx EXCEPT !.accounts[a] = w.keys[a]]

\* tx.store_txout(transaction, funding): the outgoing-transaction record
TxStoreTxout(tx, txn, funding) ==
    [tx EXCEPT !.txouts = tx.txouts \cup {[txn |-> txn, funding |-> funding]}]

\* tx.commit(): all staged writes become durable together
TxCommit(tx) == [processed |-> tx.processed, markers |-> tx.markers, coins |-> tx.coins,
                 accounts |-> tx.accounts, txouts |-> tx.txouts]

\* ---------------------------------------------------------- how a call ends
Snapshot == [wallet |-> wallet, db |-> db, sent |-> sent, trunk |-> trunk]

LinkTo(op, arg) ==
    IF last.op = op /\ last.arg = arg /\ op \in {"block_connected", "balance", "deposit_address"}
    THEN [kind |-> "again", res |-> last.res]
    ELSE IF last.op = "block_connected" /\ op = "unwind_tip" /\ last.arg = arg
    THEN [kind |-> "undo", res |-> last.res]
    ELSE NoLink

\* a call with its arguments: arg, and for fund the id and the term
BeginCall(op, arg, id, term) ==
    /\ call.op = "idle"
    /\ call' = [Idle EXCEPT !.op = op, !.pc = 1, !.arg = arg, !.id = id, !.term = term,
                            !.link = LinkTo(op, arg)]
    /\ pre' = Snapshot
    /\ prior' = IF LinkTo(op, arg) = NoLink THEN NoPrior
                ELSE [wallet |-> pre.wallet, db |-> pre.db, ret |-> last.ret]
    /\ last' = NoLast
    /\ UNCHANGED <<shared, wallet, db, poisoned, txout, stopped, sent>>

Begin(op, arg) == BeginCall(op, arg, 0, 0)

\* the call returns res ("ok" or "err"); fail names the statement that failed
Return(res, fail) ==
    /\ last' = [op |-> call.op, arg |-> call.arg, res |-> res, fail |-> fail,
                txn |-> call.txn, link |-> call.link, changed |-> call.changed,
                send |-> call.send, ret |-> call.ret]
    /\ call' = Idle

\* the call panics at statement fail; the db mutex is poisoned if it is held
Panic(fail) ==
    /\ last' = [op |-> call.op, arg |-> call.arg, res |-> "panic", fail |-> fail,
                txn |-> call.txn, link |-> call.link, changed |-> call.changed,
                send |-> call.send, ret |-> NoRet]
    /\ call' = Idle
    /\ poisoned' = (poisoned \/ call.tx.open \/ fail = "lock")

Advance == call' = [call EXCEPT !.pc = call.pc + 1]

Running(op, steps, s) ==
    /\ call.op = op
    /\ ~call.crashed
    /\ call.pc \in 1..Len(steps)
    /\ steps[call.pc] = s

\* the call record of thread t
InCall(t) == IF t = cur THEN call ELSE parked[t]

\* the call holds the guard of the db mutex: from self.db.lock() to the end
\* of the scope that declares it, the block around the transaction in
\* block_connected and the function body in fund, withdraw and unwind_tip
HoldsDb(c) == IF c.op = "block_connected" THEN c.tx.open ELSE c.guard

\* self.db.lock().unwrap(); db.transaction(): the thread waits while the
\* mutex is held
LockStep ==
    \/ /\ ~poisoned
       /\ \A t \in Threads : ~HoldsDb(InCall(t))
       /\ call' = [call EXCEPT !.pc = call.pc + 1, !.tx = DbTransaction(db), !.guard = TRUE]
       /\ UNCHANGED <<shared, wallet, db, poisoned, txout, stopped, sent, last, pre, prior>>
    \/ /\ poisoned
       /\ Panic("lock")
       /\ UNCHANGED <<shared, wallet, db, txout, stopped, sent, pre, prior>>

\* tx.commit(); a failing commit unwinds the call, the transaction is dropped
CommitStep ==
    \/ /\ db' = TxCommit(call.tx)
       /\ call' = [call EXCEPT !.pc = call.pc + 1, !.tx = [open |-> FALSE]]
       /\ UNCHANGED <<shared, wallet, poisoned, txout, stopped, sent, last, pre, prior>>
    \/ /\ Panic("commit")
       /\ UNCHANGED <<shared, wallet, db, txout, stopped, sent, pre, prior>>

\* Ok(..)
ReturnStep ==
    /\ Return("ok", "none")
    /\ UNCHANGED <<shared, wallet, db, poisoned, txout, stopped, sent, pre, prior>>

\* a storage write returned Err and `?` returns it; the transaction is dropped
ErrStep(fail) ==
    /\ Return("err", fail)
    /\ UNCHANGED <<shared, wallet, db, poisoned, txout, stopped, sent, pre, prior>>

\* ------------------------------------------------ ContentStore::set_stopped
SetStopped(v) ==
    /\ call.op = "idle"
    /\ stopped # v
    /\ stopped' = v
    /\ last' = [op |-> "set_stopped", arg |-> 0, res |-> "ok", fail |-> "none", txn |-> NoTx,
                link |-> NoLink, changed |-> FALSE, send |-> "none", ret |-> NoRet]
    /\ pre' = Snapshot
    /\ prior' = NoPrior
    /\ UNCHANGED <<shared, wallet, db, poisoned, txout, sent, call>>

\* -------------------------------------------- ContentStore::block_connected
\* block_connected without its store_processed statement
BlockConnectedStepsNoMarker == <<"lock", "process", "store_coins", "commit", "ret">>

\* block_connected without the wallet scan
BlockConnectedStepsNoScan == <<"lock", "store_coins", "store_processed", "commit", "ret">>

\* block_connected with the UTXO set and the marker committed separately
BlockConnectedStepsTwoCommits ==
    <<"lock", "process", "store_coins", "commit", "lock", "store_processed", "commit", "ret">>

BlockConnectedSteps ==
    <<"lock", "process", "store_coins", "store_processed", "commit", "ret">>

BeginBlockConnected(b) == Begin("block_connected", b)

\* the test of the scan's result negated
StoreCoinsInverted(changed) == ~changed

\* if self.wallet.process(block) { tx.store_coins(..)?; }
StoreCoinsNeeded(changed) == changed

BlockConnectedStep ==
    \/ /\ Running("block_connected", BlockConnectedSteps, "lock")
       /\ LockStep
    \/ /\ Running("block_connected", BlockConnectedSteps, "process")
       /\ LET r == WalletProcess(wallet, call.arg)
          IN  /\ wallet' = r.wallet
              /\ call' = [call EXCEPT !.pc = call.pc + 1, !.changed = r.changed]
       /\ UNCHANGED <<shared, db, poisoned, txout, stopped, sent, last, pre, prior>>
    \/ /\ Running("block_connected", BlockConnectedSteps, "store_coins")
       /\ call' = [call EXCEPT !.pc = call.pc + 1,
                               !.tx = IF StoreCoinsNeeded(call.changed)
                                      THEN TxStoreCoins(call.tx, WalletCoins(wallet))
                                      ELSE call.tx]
       /\ UNCHANGED <<shared, wallet, db, poisoned, txout, stopped, sent, last, pre, prior>>
    \/ /\ Running("block_connected", BlockConnectedSteps, "store_coins")
       /\ StoreCoinsNeeded(call.changed)
       /\ ErrStep("store_coins")
    \/ /\ Running("block_connected", BlockConnectedSteps, "store_processed")
       /\ call' = [call EXCEPT !.pc = call.pc + 1,
                               !.tx = TxStoreProcessed(call.tx, call.arg)]
       /\ UNCHANGED <<shared, wallet, db, poisoned, txout, stopped, sent, last, pre, prior>>
    \/ /\ Running("block_connected", BlockConnectedSteps, "store_processed")
       /\ ErrStep("store_processed")
    \/ /\ Running("block_connected", BlockConnectedSteps, "commit")
       /\ CommitStep
    \/ /\ Running("block_connected", BlockConnectedSteps, "ret")
       /\ ReturnStep

\* ------------------------------------------------- ContentStore::add_header
\* add_header recording the header as the processed block
AddHeaderMarks(h) ==
    /\ call.op = "idle"
    /\ db' = [db EXCEPT !.processed = h]
    /\ last' = [op |-> "add_header", arg |-> h, res |-> "ok", fail |-> "none", txn |-> NoTx,
                link |-> NoLink, changed |-> FALSE, send |-> "none", ret |-> NoRet]
    /\ pre' = Snapshot
    /\ prior' = NoPrior
    /\ UNCHANGED <<shared, wallet, poisoned, txout, stopped, sent, call>>

\* info!(..); Ok(())
AddHeader(h) ==
    /\ call.op = "idle"
    /\ last' = [op |-> "add_header", arg |-> h, res |-> "ok", fail |-> "none", txn |-> NoTx,
                link |-> NoLink, changed |-> FALSE, send |-> "none", ret |-> NoRet]
    /\ pre' = Snapshot
    /\ prior' = NoPrior
    /\ UNCHANGED <<shared, wallet, db, poisoned, txout, stopped, sent, call>>

\* ------------------------------------------------- ContentStore::unwind_tip
\* the wallet rolled back before the marker is committed
UnwindTipStepsWalletFirst == <<"lock", "wallet_unwind", "store_processed", "commit", "ret">>

\* unwind_tip locking the db mutex again for the wallet rollback, the first
\* guard still in scope
UnwindTipStepsLockTwice ==
    <<"lock", "store_processed", "commit", "lock", "wallet_unwind", "ret">>

UnwindTipSteps == <<"lock", "store_processed", "commit", "wallet_unwind", "ret">>

BeginUnwindTip(h) == Begin("unwind_tip", h)

\* the marker rewound to the unwound block itself
UnwindMarkerSelf(h) == h

\* tx.store_processed(&header.prev_blockhash)
UnwindMarker(h) == Prev(h)

UnwindTipStep ==
    \/ /\ Running("unwind_tip", UnwindTipSteps, "lock")
       /\ LockStep
    \/ /\ Running("unwind_tip", UnwindTipSteps, "store_processed")
       /\ call' = [call EXCEPT !.pc = call.pc + 1,
                               !.tx = TxStoreProcessed(call.tx, UnwindMarker(call.arg))]
       /\ UNCHANGED <<shared, wallet, db, poisoned, txout, stopped, sent, last, pre, prior>>
    \/ /\ Running("unwind_tip", UnwindTipSteps, "store_processed")
       /\ ErrStep("store_processed")
    \/ /\ Running("unwind_tip", UnwindTipSteps, "commit")
       /\ CommitStep
    \/ /\ Running("unwind_tip", UnwindTipSteps, "wallet_unwind")
       /\ wallet' = WalletUnwindTip(wallet, call.arg)
       /\ Advance
       /\ UNCHANGED <<shared, db, poisoned, txout, stopped, sent, last, pre, prior>>
    \/ /\ Running("unwind_tip", UnwindTipSteps, "ret")
       /\ ReturnStep

\* ----------------------------------------------- ContentStore::set_tx_sender
SetTxSender ==
    /\ call.op = "idle"
    /\ ~txout
    /\ txout' = TRUE
    /\ last' = [op |-> "set_tx_sender", arg |-> 0, res |-> "ok", fail |-> "none",
                txn |-> NoTx, link |-> NoLink, changed |-> FALSE, send |-> "none",
                ret |-> NoRet]
    /\ pre' = Snapshot
    /\ prior' = NoPrior
    /\ UNCHANGED <<shared, wallet, db, poisoned, stopped, sent, call>>

\* a push to the channel that returns an error for a channel that is absent
\* or fails
SendStepStrict ==
    \/ /\ txout
       /\ sent' = sent \cup {call.txn}
       /\ call' = [call EXCEPT !.pc = call.pc + 1, !.send = "sent"]
       /\ UNCHANGED <<shared, wallet, db, poisoned, txout, stopped, last, pre, prior>>
    \/ /\ txout
       /\ last' = [op |-> call.op, arg |-> call.arg, res |-> "err", fail |-> "send",
                   txn |-> call.txn, link |-> call.link, changed |-> call.changed,
                   send |-> "failed", ret |-> call.ret]
       /\ call' = Idle
       /\ UNCHANGED <<shared, wallet, db, poisoned, txout, stopped, sent, pre, prior>>
    \/ /\ ~txout
       /\ last' = [op |-> call.op, arg |-> call.arg, res |-> "err", fail |-> "send",
                   txn |-> call.txn, link |-> call.link, changed |-> call.changed,
                   send |-> "absent", ret |-> call.ret]
       /\ call' = Idle
       /\ UNCHANGED <<shared, wallet, db, poisoned, txout, stopped, sent, pre, prior>>

\* if let Some(ref txout) = self.txout { txout.send(..Tx(transaction)); }
\* the transaction is enqueued, or the send fails and its result is dropped,
\* or no channel is bound and nothing is sent
SendStep ==
    \/ /\ txout
       /\ sent' = sent \cup {call.txn}
       /\ call' = [call EXCEPT !.pc = call.pc + 1, !.send = "sent"]
       /\ UNCHANGED <<shared, wallet, db, poisoned, txout, stopped, last, pre, prior>>
    \/ /\ txout
       /\ call' = [call EXCEPT !.pc = call.pc + 1, !.send = "failed"]
       /\ UNCHANGED <<shared, wallet, db, poisoned, txout, stopped, sent, last, pre, prior>>
    \/ /\ ~txout
       /\ call' = [call EXCEPT !.pc = call.pc + 1, !.send = "absent"]
       /\ UNCHANGED <<shared, wallet, db, poisoned, txout, stopped, sent, last, pre, prior>>

\* the wallet call of fund / withdraw: Ok with the transaction built, or Err
\* (insufficient funds, passphrase, key derivation)
WalletTxStep(op) ==
    \/ \E ins \in Selections(wallet, IF call.arg = 0 THEN Sum(wallet.coins) ELSE call.arg) :
          /\ call.arg = 0 => ins = wallet.coins
          /\ LET r == IF op = "fund"
                      THEN WalletFund(wallet, call.id, call.term, call.arg, ins)
                                      ELSE WalletWithdraw(wallet, call.arg, ins)
             IN  /\ wallet' = r.wallet
                 /\ call' = [call EXCEPT !.pc = call.pc + 1, !.txn = r.txn]
          /\ UNCHANGED <<shared, db, poisoned, txout, stopped, sent, last, pre, prior>>
    \/ ErrStep("wallet")

\* ------------------------------------------------------- ContentStore::fund
\* the transaction pushed to the channel before the commit
FundStepsSendFirst ==
    <<"wallet", "lock", "store_account", "store_txout", "send", "commit", "ret">>

FundSteps ==
    <<"wallet", "lock", "store_account", "store_txout", "commit", "send", "ret">>

\* the change account persisted by fund
FundAccountChange == "0/1"

\* self.wallet.master.get((1, 0)): the account fund persists
FundAccount == "1/0"

\* fund(id, term, amount, fee_per_vbyte, passphrase); cost is amount plus fee
BeginFund(id, term, cost) ==
    /\ wallet.keys["1/0"] < MaxKeys
    /\ BeginCall("fund", cost, id, term)

FundStep ==
    \/ /\ Running("fund", FundSteps, "wallet")
       /\ WalletTxStep("fund")
    \/ /\ Running("fund", FundSteps, "lock")
       /\ LockStep
    \/ /\ Running("fund", FundSteps, "store_account")
       /\ call' = [call EXCEPT !.pc = call.pc + 1,
                               !.tx = TxStoreAccount(call.tx, FundAccount, wallet)]
       /\ UNCHANGED <<shared, wallet, db, poisoned, txout, stopped, sent, last, pre, prior>>
    \/ /\ Running("fund", FundSteps, "store_account")
       /\ ErrStep("store_account")
    \/ /\ Running("fund", FundSteps, "store_txout")
       /\ call' = [call EXCEPT !.pc = call.pc + 1,
                               !.tx = TxStoreTxout(call.tx, call.txn, TRUE)]
       /\ UNCHANGED <<shared, wallet, db, poisoned, txout, stopped, sent, last, pre, prior>>
    \/ /\ Running("fund", FundSteps, "store_txout")
       /\ Panic("store_txout")
       /\ UNCHANGED <<shared, wallet, db, txout, stopped, sent, pre, prior>>
    \/ /\ Running("fund", FundSteps, "commit")
       /\ CommitStep
    \/ /\ Running("fund", FundSteps, "send")
       /\ SendStep
    \/ /\ Running("fund", FundSteps, "ret")
       /\ ReturnStep

\* --------------------------------------------------- ContentStore::withdraw
WithdrawSteps ==
    <<"wallet", "lock", "store_account", "store_txout", "commit", "send", "ret">>

\* self.wallet.master.get((0, 1)): the account withdraw persists
WithdrawAccount == "0/1"

\* withdraw(passphrase, address, fee_per_vbyte, amount); cost is amount plus
\* fee, 0 for amount None
BeginWithdraw(cost) ==
    /\ wallet.keys["0/1"] < MaxKeys
    /\ Begin("withdraw", cost)

WithdrawStep ==
    \/ /\ Running("withdraw", WithdrawSteps, "wallet")
       /\ WalletTxStep("withdraw")
    \/ /\ Running("withdraw", WithdrawSteps, "lock")
       /\ LockStep
    \/ /\ Running("withdraw", WithdrawSteps, "store_account")
       /\ call' = [call EXCEPT !.pc = call.pc + 1,
                               !.tx = TxStoreAccount(call.tx, WithdrawAccount, wallet)]
       /\ UNCHANGED <<shared, wallet, db, poisoned, txout, stopped, sent, last, pre, prior>>
    \/ /\ Running("withdraw", WithdrawSteps, "store_account")
       /\ ErrStep("store_account")
    \/ /\ Running("withdraw", WithdrawSteps, "store_txout")
       /\ call' = [call EXCEPT !.pc = call.pc + 1,
                               !.tx = TxStoreTxout(call.tx, call.txn, FALSE)]
       /\ UNCHANGED <<shared, wallet, db, poisoned, txout, stopped, sent, last, pre, prior>>
    \/ /\ Running("withdraw", WithdrawSteps, "store_txout")
       /\ Panic("store_txout")
       /\ UNCHANGED <<shared, wallet, db, txout, stopped, sent, pre, prior>>
    \/ /\ Running("withdraw", WithdrawSteps, "commit")
       /\ CommitStep
    \/ /\ Running("withdraw", WithdrawSteps, "send")
       /\ SendStep
    \/ /\ Running("withdraw", WithdrawSteps, "ret")
       /\ ReturnStep

\* ------------------------------ ContentStore::funding_script / funding_address
\* once fund has returned, a counterparty derives the funding script and the
\* funding address of a key and a term
Derive(pk, term) ==
    /\ call.op = "idle"
    /\ last.op = "fund"
    /\ last.res = "ok"
    /\ derived' = [pk |-> pk, term |-> term, script |-> FundingScript(pk, term),
                   address |-> FundingAddress(pk, term)]
    /\ UNCHANGED <<jni, configs, trunk, lock, cur, parked, wallet, db, poisoned, txout, stopped, sent, call,
                   last, pre, prior>>

\* -------------------------------------------------------------------- Trunk
\* Trunk::get_height found no header with that hash
NoHeight == -1

\* Trunk::len()
TrunkLen(t) == Len(t)

\* Trunk::get_height(hash): the position of the header, counted from 0
TrunkGetHeight(t, h) ==
    IF \E i \in 1..Len(t) : t[i] = h
    THEN (CHOOSE i \in 1..Len(t) : t[i] = h) - 1
    ELSE NoHeight

\* Trunk::get_tip(), as a hash
TrunkTip(t) == IF Len(t) = 0 THEN NoBlock ELSE t[Len(t)]

\* the chain-sync layer adds a header to the canonical chain
TrunkExtend(b) ==
    /\ call.op = "idle"
    /\ Prev(b) = TrunkTip(trunk)
    /\ trunk' = Append(trunk, b)
    /\ UNCHANGED <<jni, configs, lock, cur, parked, derived, wallet, db, poisoned, txout, stopped, sent, call,
                   last, pre, prior>>

\* the tip is no longer canonical
TrunkUnwind ==
    /\ call.op = "idle"
    /\ Len(trunk) > 0
    /\ trunk' = SubSeq(trunk, 1, Len(trunk) - 1)
    /\ UNCHANGED <<jni, configs, lock, cur, parked, derived, wallet, db, poisoned, txout, stopped, sent, call,
                   last, pre, prior>>

\* ---------------------------------------------------- ContentStore::balance
\* the confirmations a coin needs to count as available
Maturity == 2

\* the block that confirmed coin c
ConfirmedIn(c) == c

\* Wallet::available_balance(height, height_of): the sum of the coins whose
\* confirming block has a height and is Maturity deep under height
WalletAvailableBalance(w, height, t) ==
    Sum({c \in w.coins : /\ TrunkGetHeight(t, ConfirmedIn(c)) # NoHeight
                          /\ height - TrunkGetHeight(t, ConfirmedIn(c)) >= Maturity})

\* the length the trunk had before its last header was added
TrunkLenStale(t) == IF Len(t) > 0 THEN Len(t) - 1 ELSE 0

\* the height balance() hands to the wallet: self.trunk.len()
BalanceHeight(t) == TrunkLen(t)

\* vec!(self.wallet.balance(),
\*      self.wallet.available_balance(self.trunk.len(), |h| self.trunk.get_height(h)))
BalanceOf(w, t) == <<WalletBalance(w), WalletAvailableBalance(w, BalanceHeight(t), t)>>

BalanceSteps == <<"total", "available", "ret">>

BeginBalance == Begin("balance", 0)

BalanceStep ==
    \/ /\ Running("balance", BalanceSteps, "total")
       /\ call' = [call EXCEPT !.pc = call.pc + 1, !.ret = <<BalanceOf(wallet, trunk)[1]>>]
       /\ UNCHANGED <<shared, wallet, db, poisoned, txout, stopped, sent, last, pre, prior>>
    \/ /\ Running("balance", BalanceSteps, "available")
       /\ call' = [call EXCEPT !.pc = call.pc + 1,
                               !.ret = Append(call.ret, BalanceOf(wallet, trunk)[2])]
       /\ UNCHANGED <<shared, wallet, db, poisoned, txout, stopped, sent, last, pre, prior>>
    \/ /\ Running("balance", BalanceSteps, "ret")
       /\ ReturnStep

\* -------------------------------------------- ContentStore::deposit_address
\* the address of key index of account a
Address(a, index) == <<a, index>>

\* Account::next_key(): allocate the next key of account a
WalletNextKey(w, a) ==
    [wallet |-> [w EXCEPT !.keys[a] = w.keys[a] + 1], index |-> w.keys[a] + 1]

\* the change account
DepositAccountChange == "0/1"

\* self.wallet.master.get_mut((0, 0))
DepositAccount == "0/0"

DepositAddressSteps == <<"next_key", "ret">>

BeginDepositAddress ==
    /\ wallet.keys[DepositAccount] < MaxKeys
    /\ Begin("deposit_address", 0)

DepositAddressStep ==
    \/ /\ Running("deposit_address", DepositAddressSteps, "next_key")
       /\ LET r == WalletNextKey(wallet, DepositAccount)
          IN  /\ wallet' = r.wallet
              /\ call' = [call EXCEPT !.pc = call.pc + 1,
                                      !.ret = Address(DepositAccount, r.index)]
       /\ UNCHANGED <<shared, db, poisoned, txout, stopped, sent, last, pre, prior>>
    \/ /\ Running("deposit_address", DepositAddressSteps, "next_key")
       /\ Panic("next_key")
       /\ UNCHANGED <<shared, wallet, db, txout, stopped, sent, pre, prior>>
    \/ /\ Running("deposit_address", DepositAddressSteps, "ret")
       /\ ReturnStep

\* --------------------------------------------------------------- the process
\* the process is killed between two statements of a call
Crash ==
    /\ call.op # "idle"
    /\ ~call.crashed
    /\ call' = [call EXCEPT !.crashed = TRUE]
    /\ UNCHANGED <<shared, wallet, db, poisoned, txout, stopped, sent, last, pre, prior>>

\* ------------------------------------------------------------- JNI layer
\* jni.rs: the entry points Java calls, over crate::api

Networks == {"Bitcoin", "Testnet", "Regtest"}

\* the ordinals Java passes for the network, valid and not
Ordinals == {-1, 0, 1, 2, 3}

\* the mapping with Testnet and Regtest exchanged
NetworkFromJintSwapped(n) ==
    CASE n = 0 -> [ok |-> TRUE, network |-> "Bitcoin"]
      [] n = 1 -> [ok |-> TRUE, network |-> "Regtest"]
      [] n = 2 -> [ok |-> TRUE, network |-> "Testnet"]
      [] OTHER -> [ok |-> FALSE, network |-> "none"]

\* network_from_jint: Some(network) for 0, 1, 2, and None, on which expect
\* panics, for every other ordinal
NetworkFromJint(n) ==
    CASE n = 0 -> [ok |-> TRUE, network |-> "Bitcoin"]
      [] n = 1 -> [ok |-> TRUE, network |-> "Testnet"]
      [] n = 2 -> [ok |-> TRUE, network |-> "Regtest"]
      [] OTHER -> [ok |-> FALSE, network |-> "none"]

\* jint_from_network
JintFromNetwork(net) ==
    CASE net = "Bitcoin" -> 0
      [] net = "Testnet" -> 1
      [] net = "Regtest" -> 2

\* usize::try_from(jint): Err for a negative value
UsizeTryFrom(j) == [ok |-> j >= 0, value |-> j]

\* the largest jint (i32)
JintMax == 2147483647

\* jint::try_from(usize): Err above the largest jint
JintTryFrom(u) == [ok |-> u <= JintMax, value |-> u]

NoConfig == [network |-> "none", connections |-> 0, discovery |-> FALSE]

\* the config init_config writes for a network
NewConfig(net) == [network |-> net, connections |-> 1, discovery |-> TRUE]

NoApi == [kind |-> "none", config |-> NoConfig]

NoValue == [network |-> -1, connections |-> 0, discovery |-> FALSE]

NoRes == [kind |-> "none", value |-> NoValue]

\* Optional.empty()
OptionalEmpty == [kind |-> "empty", value |-> NoValue]

JniIdle == [op |-> "idle", pc |-> "idle", workdir |-> TRUE, ordinal |-> 0, connections |-> 0,
            discovery |-> 0, network |-> "none", api |-> NoApi, res |-> NoRes,
            before |-> [net \in Networks |-> NoConfig]]

JniOps == {"loadConfig", "removeConfig", "updateConfig", "initConfig"}

\* what the JNI layer never touches
store == <<wallet, db, poisoned, txout, stopped, sent, call, last, pre, prior,
           trunk, lock, cur, parked, derived>>

\* Java calls an entry point: a work directory (a string, or null), the
\* network ordinal and, for updateConfig, the connections and the discovery
\* flag; no call follows one that did not return
JniBegin(op, w, n, c, d) ==
    /\ jni.pc \in {"idle", "done"}
    /\ jni.res.kind \notin {"abort", "unwound"}
    /\ jni' = [JniIdle EXCEPT !.op = op, !.pc = "args", !.workdir = w, !.ordinal = n,
                              !.connections = c, !.discovery = d, !.before = configs]
    /\ UNCHANGED <<store, configs>>

\* the arguments are converted: string_from_jstring(j_work_dir),
\* network_from_jint(j_network) and, in updateConfig,
\* usize::try_from(j_bitcoin_connections).  A failed expect panics out of the
\* extern fn: the process aborts or the unwinding leaves the Rust frames,
\* and the call returns nothing
JniArgs ==
    /\ jni.pc = "args"
    /\ \/ /\ jni.workdir
          /\ NetworkFromJint(jni.ordinal).ok
          /\ jni.op = "updateConfig" => UsizeTryFrom(jni.connections).ok
          /\ jni' = [jni EXCEPT !.pc = "api", !.network = NetworkFromJint(jni.ordinal).network]
       \/ /\ \/ ~jni.workdir
             \/ ~NetworkFromJint(jni.ordinal).ok
             \/ jni.op = "updateConfig" /\ ~UsizeTryFrom(jni.connections).ok
          /\ \E k \in {"abort", "unwound"} :
                jni' = [jni EXCEPT !.pc = "done", !.res = [kind |-> k, value |-> NoValue]]
    /\ UNCHANGED <<store, configs>>

\* load_config / remove_config / update_config / init_config of crate::api:
\* Err, or Ok with the config of the network; init_config gives Ok(None) when
\* the network has a config and writes one otherwise
JniApi ==
    /\ jni.pc = "api"
    /\ LET net == jni.network
           have == configs[net] # NoConfig
           updated == [network |-> net, connections |-> jni.connections,
                       discovery |-> (jni.discovery = 1)]
       IN  \/ /\ jni' = [jni EXCEPT !.pc = "ret", !.api = [kind |-> "err", config |-> NoConfig]]
              /\ UNCHANGED configs
           \/ /\ jni.op = "loadConfig"
              /\ have
              /\ jni' = [jni EXCEPT !.pc = "ret", !.api = [kind |-> "ok", config |-> configs[net]]]
              /\ UNCHANGED configs
           \/ /\ jni.op = "removeConfig"
              /\ have
              /\ jni' = [jni EXCEPT !.pc = "ret", !.api = [kind |-> "ok", config |-> configs[net]]]
              /\ configs' = [configs EXCEPT ![net] = NoConfig]
           \/ /\ jni.op = "updateConfig"
              /\ have
              /\ jni' = [jni EXCEPT !.pc = "ret", !.api = [kind |-> "ok", config |-> updated]]
              /\ configs' = [configs EXCEPT ![net] = updated]
           \/ /\ jni.op = "initConfig"
              /\ have
              /\ jni' = [jni EXCEPT !.pc = "ret",
                                    !.api = [kind |-> "ok_none", config |-> NoConfig]]
              /\ UNCHANGED configs
           \/ /\ jni.op = "initConfig"
              /\ ~have
              /\ jni' = [jni EXCEPT !.pc = "ret",
                                    !.api = [kind |-> "ok_some", config |-> NewConfig(net)]]
              /\ configs' = [configs EXCEPT ![net] = NewConfig(net)]
    /\ UNCHANGED store

\* j_optional_config: Optional.of(Config(jint_from_network(config.network),
\* peers, jint::try_from(config.bitcoin_connections), discovery))
JOptionalConfig(config) ==
    IF JintTryFrom(config.connections).ok
    THEN [kind |-> "config",
          value |-> [network |-> JintFromNetwork(config.network),
                     connections |-> JintTryFrom(config.connections).value,
                     discovery |-> config.discovery]]
    ELSE [kind |-> "abort", value |-> NoValue]

\* j_optional_init_result: Optional.of(InitResult(words, address)), the
\* address with the ordinal of its network
JOptionalInitResult(config) ==
    [kind |-> "init_result",
     value |-> [network |-> JintFromNetwork(config.network), connections |-> 0,
                discovery |-> FALSE]]

\* the match on the result of the api call
JniRet ==
    /\ jni.pc = "ret"
    /\ jni' = [jni EXCEPT !.pc = "done",
                          !.res = CASE jni.api.kind = "ok" -> JOptionalConfig(jni.api.config)
                                    [] jni.api.kind = "ok_some" ->
                                           JOptionalInitResult(jni.api.config)
                                    [] jni.api.kind = "ok_none" -> OptionalEmpty
                                    [] jni.api.kind = "err" -> OptionalEmpty]
    /\ UNCHANGED <<store, configs>>

\* ContentStore::new: txout None, stopped false; a store that has processed
\* nothing (markers counts the marker records it holds: the store is handed
\* over with its one marker) and a wallet without coins
Init ==
    /\ wallet = [coins |-> {}, added |-> [b \in Blocks |-> {}],
                 removed |-> [b \in Blocks |-> {}], keys |-> [a \in Accounts |-> 0]]
    /\ db = [processed |-> NoBlock, markers |-> 1, coins |-> {},
             accounts |-> [a \in Accounts |-> 0], txouts |-> {}]
    /\ poisoned = FALSE
    /\ txout = FALSE
    /\ stopped = FALSE
    /\ sent = {}
    /\ call = Idle
    /\ last = [op |-> "new", arg |-> 0, res |-> "ok", fail |-> "none", txn |-> NoTx,
               link |-> NoLink, changed |-> FALSE, send |-> "none", ret |-> NoRet]
    /\ pre = [wallet |-> wallet, db |-> db, sent |-> sent, trunk |-> <<>>]
    /\ prior = NoPrior
    /\ trunk = <<>>
    /\ lock = [writer |-> NoThread, readers |-> {}]
    /\ cur = ChainSync
    /\ parked = [t \in Threads |-> Idle]
    /\ derived = NoDerived
    /\ jni = JniIdle
    /\ configs = [net \in Networks |-> NoConfig]

\* ------------------------------------------------- SharedContentStore
\* SharedContentStore = Arc<RwLock<ContentStore>>: a thread reaches the store
\* through a guard of the lock, and a method's receiver fixes the guard it
\* needs

\* every method reachable through the shared borrow of a read guard
MethodLockShared(op) == "read"

\* the guard a method's receiver asks for: &self is served by a read guard,
\* &mut self only by the write guard
MethodLock(op) == IF op \in {"balance"} THEN "read" ELSE "write"

\* thread t holds a guard of the store lock
Holds(t) == lock.writer = t \/ t \in lock.readers

\* thread t may enter method op with the guard it holds
MayCall(t, op) ==
    \/ lock.writer = t
    \/ MethodLock(op) = "read" /\ t \in lock.readers

\* RwLock::write() / RwLock::read(): the write guard is granted when no guard
\* is out, a read guard when no write guard is out; the thread runs next when
\* no call is in progress
Acquire(t, mode) ==
    /\ ~Holds(t)
    /\ InCall(t).op = "idle"
    /\ \/ /\ mode = "write"
          /\ lock.writer = NoThread
          /\ lock.readers = {}
          /\ lock' = [lock EXCEPT !.writer = t]
       \/ /\ mode = "read"
          /\ lock.writer = NoThread
          /\ lock' = [lock EXCEPT !.readers = lock.readers \cup {t}]
    /\ cur' = IF call.op = "idle" THEN t ELSE cur
    /\ UNCHANGED <<jni, configs, wallet, db, poisoned, txout, stopped, sent, call, last, pre, prior,
                   trunk, parked, derived>>

\* drop of the guard, after the thread's call has returned
Release(t) ==
    /\ Holds(t)
    /\ InCall(t).op = "idle"
    /\ lock' = [writer |-> IF lock.writer = t THEN NoThread ELSE lock.writer,
                readers |-> lock.readers \ {t}]
    /\ UNCHANGED <<jni, configs, wallet, db, poisoned, txout, stopped, sent, call, last, pre, prior,
                   trunk, cur, parked, derived>>

\* the scheduler runs another thread that holds a guard
Switch(t) ==
    /\ t # cur
    /\ Holds(t)
    /\ cur' = t
    /\ call' = parked[t]
    /\ parked' = [parked EXCEPT ![cur] = call, ![t] = Idle]
    /\ UNCHANGED <<jni, configs, wallet, db, poisoned, txout, stopped, sent, last, pre, prior, trunk,
                   lock, derived>>

\* the chain-sync layer drives the store
NextChain ==
    \/ \E b \in Blocks : BeginBlockConnected(b)
    \/ BlockConnectedStep
    \/ \E h \in Blocks : BeginUnwindTip(h)
    \/ UnwindTipStep
    \/ \E h \in Blocks : AddHeader(h)
    \/ \E v \in BOOLEAN : SetStopped(v)
    \/ Crash

SpecChain == Init /\ [][NextChain]_vars

\* callers fund and withdraw while the chain-sync layer connects blocks on
\* the processed tip
NextFund ==
    \/ \E b \in Blocks : Prev(b) = db.processed /\ BeginBlockConnected(b)
    \/ BlockConnectedStep
    \/ SetTxSender
    \/ \E id \in {1}, term \in {17}, cost \in 1..MaxAmount : BeginFund(id, term, cost)
    \/ FundStep
    \/ \E cost \in 0..MaxAmount : BeginWithdraw(cost)
    \/ WithdrawStep

SpecFund == Init /\ [][NextFund]_vars

\* callers ask for the balance and for deposit addresses while the chain-sync
\* layer extends and unwinds the trunk and connects blocks on the processed
\* tip
NextQuery ==
    \/ \E b \in Blocks : TrunkExtend(b)
    \/ TrunkUnwind
    \/ \E b \in Blocks : Prev(b) = db.processed /\ BeginBlockConnected(b)
    \/ BlockConnectedStep
    \/ BeginBalance
    \/ BalanceStep
    \/ BeginDepositAddress
    \/ DepositAddressStep

SpecQuery == Init /\ [][NextQuery]_vars

\* one chain-sync thread and NCallers caller threads share the store through
\* its lock: the chain-sync thread takes the write guard to connect and unwind
\* the first block, the callers take either guard to fund a first contract,
\* sweep the wallet once and ask for the balance
NextThreads ==
    \/ \E t \in Threads, mode \in {"read", "write"} :
           /\ mode = "read" => t # ChainSync
           /\ Acquire(t, mode)
    \/ \E t \in Threads : Release(t)
    \/ \E t \in Threads : Switch(t)
    \/ \E b \in Blocks : /\ cur = ChainSync
                         /\ MayCall(cur, "block_connected")
                         /\ db.processed = NoBlock
                         /\ Prev(b) = db.processed
                         /\ BeginBlockConnected(b)
    \/ BlockConnectedStep
    \/ \E h \in Blocks : /\ cur = ChainSync
                         /\ MayCall(cur, "unwind_tip")
                         /\ h = db.processed
                         /\ BeginUnwindTip(h)
    \/ UnwindTipStep
    \/ \E id \in {1}, term \in {17}, cost \in {1} : /\ cur # ChainSync
                                                    /\ MayCall(cur, "fund")
                                                    /\ wallet.keys["1/0"] = 0
                                                    /\ BeginFund(id, term, cost)
    \/ FundStep
    \/ \E cost \in {0} : /\ cur # ChainSync
                         /\ MayCall(cur, "withdraw")
                         /\ wallet.keys["0/1"] = 0
                         /\ BeginWithdraw(cost)
    \/ WithdrawStep
    \/ /\ cur # ChainSync
       /\ MayCall(cur, "balance")
       /\ BeginBalance
    \/ BalanceStep

SpecThreads == Init /\ [][NextThreads]_vars

\* a thread that is inside a call takes its next step
ThreadStep(t) ==
    /\ cur = t
    /\ \/ BlockConnectedStep
       \/ UnwindTipStep
       \/ FundStep
       \/ WithdrawStep
       \/ BalanceStep
       \/ DepositAddressStep

\* the scheduler runs every thread that can run: a thread that holds a guard
\* is scheduled again and again, and takes a step if steps of its call are
\* enabled again and again
FairThreads ==
    \A t \in Threads : WF_vars(Switch(t)) /\ SF_vars(ThreadStep(t))

\* the threads of SpecThreads, the callers also taking a first deposit
\* address under the write guard
NextThreadsFair ==
    \/ NextThreads
    \/ /\ cur # ChainSync
       /\ MayCall(cur, "deposit_address")
       /\ wallet.keys["0/0"] = 0
       /\ BeginDepositAddress
    \/ DepositAddressStep

\* these threads under a fair scheduler
SpecThreadsFair == Init /\ [][NextThreadsFair]_vars /\ FairThreads

\* Java calls the config entry points with every ordinal
NextJni ==
    \/ \E op \in JniOps, w \in BOOLEAN, n \in Ordinals, c \in {-1, 2}, d \in {0, 1} :
           /\ op # "updateConfig" => (c = 2 /\ d = 0)
           /\ JniBegin(op, w, n, c, d)
    \/ JniArgs
    \/ JniApi
    \/ JniRet

SpecJni == Init /\ [][NextJni]_vars

\* a first block pays the wallet, callers fund with every id and term, and a
\* counterparty derives scripts and addresses
NextScript ==
    \/ \E b \in Blocks : /\ Prev(b) = NoBlock
                         /\ db.processed = NoBlock
                         /\ BeginBlockConnected(b)
    \/ BlockConnectedStep
    \/ \E id \in Ids, term \in Terms, cost \in {1} : BeginFund(id, term, cost)
    \/ FundStep
    \/ \E pk \in PubKeys, term \in Terms : Derive(pk, term)

SpecScript == Init /\ [][NextScript]_vars

\* ------------------------------------------------------------------ claims
Ended(op, res) == call.op = "idle" /\ last.op = op /\ last.res = res

\* the UTXO set obtained by applying the blocks up to and including h
RECURSIVE UtxoAt(_)
UtxoAt(h) == IF h = NoBlock THEN {} ELSE (UtxoAt(Prev(h)) \cup Outs(h)) \ Ins(h)

\* what one failure-free block_connected(b) makes of wallet w and store d
ConnectedOk(w, d, b) ==
    LET r == WalletProcess(w, b)
    IN  [wcoins |-> r.wallet.coins,
         dcoins |-> IF r.changed THEN r.wallet.coins ELSE d.coins,
         processed |-> b]

\* C1: after a successful block_connected(B) the durable processed-block
\* marker is hash(B), whether or not the wallet scan reported a change.
C1_MarkerIsLastBlock ==
    Ended("block_connected", "ok") => db.processed = last.arg

\* a block the scan reported no change for moved the marker
C1_Witness ==
    /\ Ended("block_connected", "ok")
    /\ ~last.changed
    /\ pre.db.processed # last.arg
    /\ db.processed = last.arg

C4_StoppedHandlersAreNoOps ==
    (/\ call.op = "idle"
     /\ stopped
     /\ last.op \in {"block_connected", "unwind_tip", "add_header"})
        => /\ wallet = pre.wallet
           /\ db.processed = pre.db.processed
           /\ db.coins = pre.db.coins

\* C5: the durable UTXO set is the one obtained by applying the blocks up to
\* the durable marker; in particular, when that held before a block was
\* connected on the marker, it holds after unwind_tip of that block.
C5_DurableCoinsMatchMarker ==
    (/\ Ended("unwind_tip", "ok")
     /\ last.link = [kind |-> "undo", res |-> "ok"]
     /\ prior.db.processed = Prev(last.arg)
     /\ prior.db.coins = UtxoAt(prior.db.processed)
     /\ WalletCoins(prior.wallet) = prior.db.coins)
        => db.coins = UtxoAt(db.processed)

\* C9: unwind_tip commits the marker's rewind before the wallet rolls back:
\* in no state of an unwind_tip(h) call, crashed or not, are the wallet's
\* changes of h reverted while the durable marker still is h.
C9_MarkerRewoundBeforeWallet ==
    (call.op = "unwind_tip" /\ wallet # pre.wallet)
        => /\ db.processed = Prev(call.arg)
           /\ db.processed # call.arg

\* the process is killed after the commit and before the wallet rollback
C9_Witness ==
    /\ call.op = "unwind_tip"
    /\ call.crashed
    /\ UnwindTipSteps[call.pc] = "wallet_unwind"
    /\ pre.db.processed = call.arg
    /\ db.processed = Prev(call.arg)
    /\ Absorbed(wallet, call.arg)

\* C10: a storage write that fails during block_connected(B) returns an
\* error and makes nothing durable, and redelivering B then ends with the
\* marker at hash(B) and the wallet and durable UTXO sets a single
\* failure-free block_connected(B) would have produced.
C10_RedeliveryAfterFailure ==
    /\ Ended("block_connected", "err") => db = pre.db
    /\ (Ended("block_connected", "ok") /\ last.link = [kind |-> "again", res |-> "err"])
        => LET want == ConnectedOk(prior.wallet, prior.db, last.arg)
           IN  /\ db.processed = want.processed
               /\ WalletCoins(wallet) = want.wcoins
               /\ db.coins = want.dcoins

\* the outgoing-transaction record of txn is durable
Recorded(txn) == \E r \in db.txouts : r.txn = txn

\* the account fund / withdraw persists
StoredAccount(op) == IF op = "fund" THEN "1/0" ELSE "0/1"

\* the call is past its commit statement
PastCommit ==
    /\ call.op \in {"fund", "withdraw"}
    /\ LET steps == IF call.op = "fund" THEN FundSteps ELSE WithdrawSteps
       IN  \E i \in 1..Len(steps) : steps[i] = "commit" /\ i < call.pc

\* C6: fund and withdraw push the transaction to the broadcast channel, and
\* return success, only after the storage transaction with the account
\* record and the outgoing-transaction record has committed.
C6_BroadcastAfterCommit ==
    /\ \A t \in sent : Recorded(t)
    /\ (call.op \in {"fund", "withdraw"} /\ call.txn \in sent) => PastCommit
    /\ \A op \in {"fund", "withdraw"} :
          Ended(op, "ok") => /\ Recorded(last.txn)
                             /\ db.accounts[StoredAccount(op)] = last.txn.key

\* a fund call broadcast its committed transaction and returned Ok
C6_Witness ==
    /\ Ended("fund", "ok")
    /\ last.txn \in sent
    /\ Recorded(last.txn)
    /\ last.txn \notin pre.sent

\* C7: when a storage step of fund or withdraw fails, or the wallet fails to
\* build the transaction, the call returns an error value (no panic, no
\* success), nothing of it is persisted and nothing is broadcast.
C7_FailuresReturnErr ==
    (/\ call.op = "idle"
     /\ last.op \in {"fund", "withdraw"}
     /\ last.fail \in {"wallet", "store_account", "store_txout", "commit"})
        => /\ last.res = "err"
           /\ db = pre.db
           /\ sent = pre.sent

\* C8: when fund or withdraw fails at a storage step after the wallet built
\* the transaction, the in-memory wallet is as it was before the call.
C8_WalletUnchangedOnFailure ==
    (/\ call.op = "idle"
     /\ last.op \in {"fund", "withdraw"}
     /\ last.fail \in {"store_account", "store_txout", "commit"})
        => wallet = pre.wallet

\* the call in progress, or the last one that ended
Doing == IF call.op = "idle" THEN [op |-> last.op, arg |-> last.arg]
         ELSE [op |-> call.op, arg |-> call.arg]

\* C11: every change of the durable marker is a single step: forward by
\* block_connected(B) to hash(B) from B's predecessor, or backward by
\* unwind_tip(header) from hash(header) to header's predecessor; no call
\* moves it further, or to a block unrelated to the marker before the call.
C11_MarkerMovesOneStep ==
    db.processed # pre.db.processed
        => \/ /\ Doing.op = "block_connected"
              /\ db.processed = Doing.arg
              /\ pre.db.processed = Prev(Doing.arg)
           \/ /\ Doing.op = "unwind_tip"
              /\ pre.db.processed = Doing.arg
              /\ db.processed = Prev(Doing.arg)

\* the operations that mutate the wallet and write a storage transaction
Mutations == {"fund", "withdraw", "block_connected", "unwind_tip"}

\* thread t is between the entry and the return of a mutation
Mutating(t) == InCall(t).op \in Mutations

\* C12: with one chain-sync thread and the caller threads sharing the store,
\* while a thread is inside fund, withdraw, block_connected or unwind_tip no
\* other thread is inside any of them, and no other thread is inside
\* balance: a balance call never runs between the steps of a mutation
C12_MutationsExclusive ==
    \A t \in Threads, u \in Threads :
        (t # u /\ Mutating(t)) => InCall(u).op \notin (Mutations \cup {"balance"})

\* C12 witness: a caller holds the write guard in the middle of fund, past
\* its wallet mutation and before its commit, after the chain-sync thread
\* connected a block, while no other thread is inside a call
C12_Witness ==
    /\ cur # ChainSync
    /\ lock.writer = cur
    /\ call.op = "fund"
    /\ call.pc > 1
    /\ call.tx.open
    /\ wallet # pre.wallet
    /\ db.processed # NoBlock
    /\ \A u \in Threads \ {cur} : parked[u].op = "idle"

C13_ChannelNeverFailsCall ==
    (/\ call.op = "idle"
     /\ last.op \in {"fund", "withdraw"}
     /\ last.send \in {"absent", "failed"})
        => /\ last.res = "ok"
           /\ Recorded(last.txn)
           /\ db.accounts[StoredAccount(last.op)] = last.txn.key
           /\ sent = pre.sent
           /\ last.txn \notin sent

\* a fund call whose send failed returned Ok, after an earlier transaction
\* was persisted and not broadcast either
C13_Witness ==
    /\ Ended("fund", "ok")
    /\ last.send = "failed"
    /\ txout
    /\ Recorded(last.txn)
    /\ last.txn \notin sent
    /\ \E r \in pre.db.txouts : r.txn \notin sent

\* the bool the scan of the call in progress, or of the last call, returned
Scanned == IF call.op = "idle" THEN last.changed ELSE call.changed

\* C14: block_connected makes its durable writes in one storage transaction:
\* in every state of a call, crashed or failed ones included, either nothing
\* of it is durable, or the marker is hash(B) together with the UTXO set,
\* which is the wallet's if the scan returned true and the old one if not.
C14_OneTransaction ==
    Doing.op = "block_connected"
        => \/ db = pre.db
           \/ /\ db.processed = Doing.arg
              /\ db.coins = IF Scanned THEN WalletCoins(wallet) ELSE pre.db.coins
              /\ db.accounts = pre.db.accounts
              /\ db.txouts = pre.db.txouts

\* a block that changed the wallet made the new UTXO set and the new marker
\* durable
C14_Witness ==
    /\ Ended("block_connected", "ok")
    /\ last.changed
    /\ db.coins = WalletCoins(wallet)
    /\ db.coins # pre.db.coins
    /\ db.processed = last.arg
    /\ db.processed # pre.db.processed

\* C17: add_header(height, header) mutates no state: the wallet, the durable
\* store, the stopped flag, the broadcast binding and what was broadcast are
\* the same after it as before, and it returns Ok.
C17_AddHeaderMutatesNothing ==
    [][(call.op = "idle" /\ call'.op = "idle" /\ last'.op = "add_header")
          => /\ wallet' = wallet
             /\ db' = db
             /\ poisoned' = poisoned
             /\ stopped' = stopped
             /\ txout' = txout
             /\ sent' = sent
             /\ last'.res = "ok"]_vars

\* add_header returned on a store that holds coins and a marker, while
\* stopped
C17_Witness ==
    /\ Ended("add_header", "ok")
    /\ stopped
    /\ db.processed # NoBlock
    /\ db.coins # {}
    /\ wallet = pre.wallet
    /\ db = pre.db

\* the coins of a set that trunk t confirms Maturity deep under its tip
Spendable(coins, t) ==
    Sum({c \in coins : \E i \in 1..Len(t) : t[i] = ConfirmedIn(c) /\ Len(t) - (i - 1) >= Maturity})

\* C15: balance() returns total = the sum of the wallet's UTXO set and
\* available = the part of it the Trunk, as it is at the call, confirms deep
\* enough; nothing is cached: when the Trunk changes between two balance()
\* calls with no ContentStore operation in between, the second call computes
\* available from the new Trunk, total is unchanged, and available never
\* exceeds total.
C15_BalanceFromCurrentTrunk ==
    Ended("balance", "ok")
        => /\ last.ret = <<Sum(WalletCoins(wallet)), Spendable(WalletCoins(wallet), pre.trunk)>>
           /\ last.ret[2] <= last.ret[1]
           /\ wallet = pre.wallet
           /\ db = pre.db
           /\ last.link = [kind |-> "again", res |-> "ok"] => last.ret[1] = prior.ret[1]

\* between two balance() calls only the Trunk changed, and available rose
\* from zero while total stayed
C15_Witness ==
    /\ Ended("balance", "ok")
    /\ last.link = [kind |-> "again", res |-> "ok"]
    /\ prior.ret[2] = 0
    /\ last.ret[2] > 0
    /\ last.ret[1] = prior.ret[1]

\* block_connected(B) has just returned Ok for a block the wallet had not
\* absorbed, that pays the wallet and spends none of its coins
FreshDeposit ==
    /\ Ended("block_connected", "ok")
    /\ trunk = pre.trunk
    /\ Outs(last.arg) # {}
    /\ Outs(last.arg) \cap WalletCoins(pre.wallet) = {}
    /\ Ins(last.arg) \cap WalletCoins(pre.wallet) = {}
    /\ ~Absorbed(pre.wallet, last.arg)

\* what balance() would return before and after the last call
BalanceBefore == BalanceOf(pre.wallet, pre.trunk)
BalanceAfter == BalanceOf(wallet, trunk)

\* balance() counts coin c of the wallet as available
Counted(c) ==
    BalanceAfter[2] - BalanceOf([wallet EXCEPT !.coins = wallet.coins \ {c}], trunk)[2] = Value(c)

\* the number of blocks connected on top of block b up to the marker h
RECURSIVE ConnectedAbove(_, _)
ConnectedAbove(h, b) ==
    IF h = b THEN 0
    ELSE IF h = NoBlock THEN 0 - (NBlocks + 1)
    ELSE 1 + ConnectedAbove(Prev(h), b)

\* trunk t holds block b with Maturity confirmations
Deep(b, t) == \E i \in 1..Len(t) : t[i] = b /\ Len(t) - (i - 1) >= Maturity

\* C16 as claimed: block_connected for a block with an output of value v
\* paying the wallet raises balance() total by v and leaves available
\* unchanged by that call; available counts v only after enough further
\* blocks have been connected.
C16_AvailableWaitsForBlocks ==
    /\ FreshDeposit => /\ BalanceAfter[1] = BalanceBefore[1] + Sum(Outs(last.arg))
                       /\ BalanceAfter[2] = BalanceBefore[2]
    /\ (call.op = "idle" /\ last.res = "ok") =>
          \A c \in WalletCoins(wallet) :
              Counted(c) => ConnectedAbove(db.processed, ConfirmedIn(c)) >= Maturity - 1

\* C16 amended: the call raises total by v; it leaves available unchanged if
\* the Trunk does not yet hold the block deep enough at the call; available
\* counts v exactly when the Trunk holds the block deep enough under its
\* tip, whatever was connected to the store since.
C16_AvailableFollowsTrunk ==
    /\ FreshDeposit => BalanceAfter[1] = BalanceBefore[1] + Sum(Outs(last.arg))
    /\ (FreshDeposit /\ ~Deep(last.arg, pre.trunk)) => BalanceAfter[2] = BalanceBefore[2]
    /\ call.op = "idle" =>
          \A c \in WalletCoins(wallet) : Counted(c) <=> Deep(ConfirmedIn(c), trunk)

\* a block paying the wallet was connected while it was the Trunk's tip:
\* total rose by its output, available did not
C16_Witness ==
    /\ FreshDeposit
    /\ TrunkTip(trunk) = last.arg
    /\ ~Deep(last.arg, pre.trunk)
    /\ BalanceAfter[1] = BalanceBefore[1] + Sum(Outs(last.arg))
    /\ BalanceAfter[1] > BalanceBefore[1]
    /\ BalanceAfter[2] = BalanceBefore[2]

\* C20: deposit_address() advances the key index of the receiving account
\* (0,0) by one and returns that key's address, so two consecutive calls
\* return different addresses; it writes nothing to the durable store: the
\* account record, the UTXO set and the marker are as before the call.
C20_DepositAddressAdvancesKey ==
    /\ Doing.op = "deposit_address" => db = pre.db
    /\ Ended("deposit_address", "ok")
          => /\ wallet.keys["0/0"] = pre.wallet.keys["0/0"] + 1
             /\ last.ret = Address("0/0", wallet.keys["0/0"])
             /\ \A a \in Accounts \ {"0/0"} : wallet.keys[a] = pre.wallet.keys[a]
             /\ WalletCoins(wallet) = WalletCoins(pre.wallet)
             /\ last.link = [kind |-> "again", res |-> "ok"] => last.ret # prior.ret

\* the second of two consecutive calls returned another address, and the
\* durable account record still has the index it had before them
C20_Witness ==
    /\ Ended("deposit_address", "ok")
    /\ last.link = [kind |-> "again", res |-> "ok"]
    /\ last.ret # prior.ret
    /\ wallet.keys["0/0"] = prior.wallet.keys["0/0"] + 2
    /\ db.accounts["0/0"] = prior.wallet.keys["0/0"]
    /\ db = prior.db

\* one instruction of a script: a number, a data push or another opcode
Instr(kind, n, data) == [kind |-> kind, n |-> n, data |-> data]

\* a script read back opcode by opcode
RECURSIVE ParseScript(_)
ParseScript(script) ==
    IF script = <<>> THEN <<>>
    ELSE LET b == script[1]
         IN  IF b = 0 THEN <<Instr("int", 0, <<>>)>> \o ParseScript(Tail(script))
             ELSE IF b < 76
             THEN <<Instr("push", 0, SubSeq(script, 2, b + 1))>>
                      \o ParseScript(SubSeq(script, b + 2, Len(script)))
             ELSE IF b \in 81..96
             THEN <<Instr("int", b - 80, <<>>)>> \o ParseScript(Tail(script))
             ELSE <<Instr("op", b, <<>>)>> \o ParseScript(Tail(script))

RECURSIVE LittleEndian(_)
LittleEndian(data) == IF data = <<>> THEN 0 ELSE data[1] + 256 * LittleEndian(Tail(data))

\* the number an instruction leaves on the stack; a script number has at
\* most four bytes, and is negative with the top bit of its last byte set
NumberOf(instr) ==
    IF instr.kind = "int" THEN instr.n
    ELSE IF instr.kind = "push" /\ Len(instr.data) \in 1..4
    THEN IF instr.data[Len(instr.data)] >= 128
         THEN 0 - LittleEndian(instr.data)
         ELSE LittleEndian(instr.data)
    ELSE 0 - 1

\* C18: the funding script of a key and a 16-bit term is exactly push-int
\* term, CHECKSEQUENCEVERIFY, DROP, push of the key's bytes, CHECKSIG; the
\* funding address is the P2WSH of that script; and the funding output of
\* the transaction fund(id, term, ..) returns pays to the script the
\* funding address of the returned key and term stands for.
C18_FundingScriptAndAddress ==
    /\ derived # NoDerived
          => /\ LET ins == ParseScript(derived.script)
                IN  /\ Len(ins) = 5
                    /\ ins[1].kind \in {"int", "push"}
                    /\ NumberOf(ins[1]) = derived.term
                    /\ ins[2] = Instr("op", 178, <<>>)
                    /\ ins[3] = Instr("op", 117, <<>>)
                    /\ ins[4] = Instr("push", 0, PubKeyBytes(derived.pk))
                    /\ ins[5] = Instr("op", 172, <<>>)
             /\ derived.address.program = Sha256(derived.script)
             /\ derived.address.version = 0
    /\ \A r \in db.txouts \cup {[txn |-> last.txn, funding |-> TRUE]} :
          (/\ r.txn.kind = "fund"
           /\ r.funding
           /\ derived.pk = r.txn.funder
           /\ derived.term = r.txn.term)
              => r.txn.script_pubkey = ScriptPubkey(derived.address)

\* fund returned a transaction and its key, and the counterparty derived
\* the address of that key and term (a term pushed as three bytes of data)
C18_Witness ==
    /\ Ended("fund", "ok")
    /\ Recorded(last.txn)
    /\ derived.pk = last.txn.funder
    /\ derived.term = last.txn.term
    /\ derived.term > 32767
    /\ Len(derived.script) = 41
    /\ last.txn.script_pubkey = ScriptPubkey(derived.address)

\* the durable records that differ between stores d and e, by kind
WrittenAccounts(d, e) == {a \in Accounts : d.accounts[a] # e.accounts[a]}

WrittenTxouts(d, e) == (e.txouts \ d.txouts) \cup (d.txouts \ e.txouts)

\* C21: across a fund or withdraw call, in progress or ended, with any
\* outcome, the durable marker and the durable UTXO set are as before the
\* call; the durable store differs from the one before the call at most in
\* the record of account 1/0 (fund) or 0/1 (withdraw) and in one added
\* outgoing-transaction record of the call's transaction, with funding
\* metadata exactly for fund; a call that returns Ok has written both
C21_FundWithdrawFrame ==
    \A op \in {"fund", "withdraw"} :
        Doing.op = op =>
            /\ db.processed = pre.db.processed
            /\ db.markers = pre.db.markers
            /\ db.coins = pre.db.coins
            /\ WrittenAccounts(pre.db, db) \subseteq {StoredAccount(op)}
            /\ pre.db.txouts \subseteq db.txouts
            /\ \A r \in WrittenTxouts(pre.db, db) :
                  /\ r.txn = (IF call.op = "idle" THEN last.txn ELSE call.txn)
                  /\ r.funding = (op = "fund")
            /\ Cardinality(WrittenTxouts(pre.db, db)) <= 1
            /\ Ended(op, "ok") =>
                  /\ WrittenAccounts(pre.db, db) = {StoredAccount(op)}
                  /\ Cardinality(WrittenTxouts(pre.db, db)) = 1

\* C21 witness: a withdraw returned Ok on a store that holds a processed
\* block and a UTXO set, after an earlier fund was recorded, and wrote its
\* account record and its outgoing-transaction record
C21_Witness ==
    /\ Ended("withdraw", "ok")
    /\ db.processed # NoBlock
    /\ db.coins # {}
    /\ WrittenAccounts(pre.db, db) = {"0/1"}
    /\ \E r \in db.txouts : r.funding
    /\ \E r \in WrittenTxouts(pre.db, db) : ~r.funding

\* the statements of a call of op
StepsOf(op) ==
    CASE op = "block_connected" -> BlockConnectedSteps
      [] op = "unwind_tip" -> UnwindTipSteps
      [] op = "fund" -> FundSteps
      [] op = "withdraw" -> WithdrawSteps
      [] op = "balance" -> BalanceSteps
      [] op = "deposit_address" -> DepositAddressSteps
      [] OTHER -> <<>>

\* the statements of op that call into the Trunk, which takes its own lock
\* for the length of the method: balance and the balance log lines hand it
\* to the wallet; fund and withdraw also pass it to the wallet call
TrunkCalls(op) ==
    CASE op = "balance" -> {"available"}
      [] op \in {"fund", "withdraw"} -> {"wallet", "ret"}
      [] op = "block_connected" -> {"store_coins"}
      [] OTHER -> {}

\* the order of the locks
LockRank(l) == CASE l = "store" -> 1 [] l = "db" -> 2 [] l = "trunk" -> 3

\* the locks thread t holds between its steps
HeldBy(t) ==
    (IF Holds(t) THEN {"store"} ELSE {}) \cup (IF HoldsDb(InCall(t)) THEN {"db"} ELSE {})

\* the locks the next statement of thread t's call takes
NextAcquires(t) ==
    LET c == InCall(t)
        steps == StepsOf(c.op)
    IN  IF c.op = "idle" \/ c.pc \notin 1..Len(steps) THEN {}
        ELSE (IF steps[c.pc] = "lock" THEN {"db"} ELSE {})
             \cup (IF steps[c.pc] \in TrunkCalls(c.op) THEN {"trunk"} ELSE {})

\* every lock a thread is about to take ranks above every lock it holds, a
\* thread inside a call holds the store lock, at most one thread holds the db
\* lock, and a thread outside a call holds neither the db lock nor the Trunk
LockOrder ==
    /\ \A t \in Threads :
          /\ \A l \in NextAcquires(t), h \in HeldBy(t) : LockRank(h) < LockRank(l)
          /\ InCall(t).op # "idle" => "store" \in HeldBy(t)
          /\ InCall(t).op = "idle" => HeldBy(t) \subseteq {"store"}
    /\ Cardinality({t \in Threads : HoldsDb(InCall(t))}) <= 1

\* C22: with the threads calling through the lock-guarded store, every lock
\* is taken in the order store lock, db lock, Trunk (a thread never takes a
\* lock ranked at or below one it holds), the db lock and the Trunk are
\* released when the call ends, and under a fair scheduler every call a
\* thread has entered ends: no interleaving deadlocks
C22_LockOrderAndProgress ==
    /\ []LockOrder
    /\ \A t \in Threads : (InCall(t).op # "idle") ~> (InCall(t).op = "idle")

\* C22 witness: two callers are inside balance under read guards at the same
\* time, one of them about to call the Trunk, after a fund that held the
\* store lock and the db lock wrote its records
C22_Witness ==
    /\ \E t \in Threads, u \in Threads :
          /\ t # u
          /\ InCall(t).op = "balance"
          /\ InCall(u).op = "balance"
          /\ "trunk" \in NextAcquires(t)
          /\ {t, u} \subseteq lock.readers
    /\ \E r \in db.txouts : r.funding

\* the JNI call has ended: it returned a value, or it did not return
JniEnded == jni.pc = "done"

\* the call returned nothing: a panic left the extern fn
JniAborted == jni.res.kind \in {"abort", "unwound"}

\* C23: a config entry point whose api call returned Err returns
\* Optional.empty(); initConfig returns Optional.empty(), and no InitResult,
\* when the network already had a config, which it leaves as it was; the
\* ordinal mapping is one-to-one between 0, 1, 2 and Bitcoin, Testnet,
\* Regtest, with jint_from_network(network_from_jint(n)) = n, also on the
\* way through a call that returns a Config or an InitResult; a call with
\* any other ordinal returns nothing and never reaches the api
C23_JniErrorsAndOrdinals ==
    /\ \A n \in {0, 1, 2} :
          /\ NetworkFromJint(n).ok
          /\ JintFromNetwork(NetworkFromJint(n).network) = n
    /\ {NetworkFromJint(n).network : n \in {0, 1, 2}} = Networks
    /\ \A net \in Networks :
          /\ JintFromNetwork(net) \in {0, 1, 2}
          /\ NetworkFromJint(JintFromNetwork(net)).network = net
    /\ \A n \in Ordinals \ {0, 1, 2} : ~NetworkFromJint(n).ok
    /\ JniEnded =>
          /\ jni.api.kind = "err" => (jni.res = OptionalEmpty /\ jni.op \in JniOps)
          /\ (jni.op = "initConfig" /\ ~JniAborted
                /\ jni.before[jni.network] # NoConfig) =>
                 /\ jni.res = OptionalEmpty
                 /\ configs = jni.before
          /\ jni.res.kind \in {"config", "init_result"} => jni.res.value.network = jni.ordinal
          /\ jni.ordinal \notin {0, 1, 2} =>
                 /\ JniAborted
                 /\ jni.api = NoApi
                 /\ configs = jni.before
    /\ jni.pc \in {"api", "ret"} =>
          /\ jni.ordinal \in {0, 1, 2}
          /\ JintFromNetwork(jni.network) = jni.ordinal

\* C23 witness: initConfig on Regtest returned Optional.empty() because the
\* network already had a config, while another network has none
C23_Witness ==
    /\ JniEnded
    /\ jni.op = "initConfig"
    /\ jni.ordinal = 2
    /\ jni.api.kind = "ok_none"
    /\ jni.res = OptionalEmpty
    /\ configs["Regtest"] # NoConfig
    /\ configs["Bitcoin"] = NoConfig

====
